---- MODULE Spec2Model ----
(***************************************************************************)
(* prime_buckets: trial-division primality test, sequential and parallel   *)
(* partition of the "primes" below a bound by last decimal digit, and the  *)
(* optional dump of the sorted buckets to four text files (src/main.rs).   *)
(***************************************************************************)
EXTENDS Integers, Sequences, FiniteSets, TLC

\* ------------------------------------------------------------------ bounds
MaxN == 1000          \* largest input handed to is_prime on its own
MaxBound == 30        \* largest --number for the sequential sieve
MaxParBound == 12     \* largest --number for the parallel sieve
NumWorkers == 2       \* threads of the rayon pool

Workers == 1..NumWorkers
Digits == {1, 3, 7, 9}          \* the four match arms / bucket_end1,3,7,9
NoHolder == 0                   \* an unlocked Mutex

VARIABLES
    pc,          \* position of main / of the is_prime call
    number,      \* args.number, or the argument of is_prime
    par,         \* args.par
    dump,        \* args.dump
    ret,         \* value returned by is_prime
    i,           \* loop variable of prime_buckets
    bucket,      \* the four Vec<u64> built inside the sieve
    evaluated,   \* candidates on which the loop body / closure has run
    pending,     \* items of (1..number).into_par_iter() not yet handed out
    wpc,         \* per worker: position inside the closure
    wcand,       \* per worker: the closure's argument i
    lock,        \* per bucket: holder of its Mutex, NoHolder when free
    acquired,    \* per bucket: number of lock() calls that returned
    bucket_end,  \* main's bucket_end1,3,7,9
    files        \* content of bucket1.txt .. bucket9.txt (absent = <<"absent">>)

vars == <<pc, number, par, dump, ret, i, bucket, evaluated, pending, wpc,
          wcand, lock, acquired, bucket_end, files>>

\* ------------------------------------------------------------ pure helpers
\* (number as f64).sqrt() as u64 : exact floor of the square root for every
\* number below 2^52, which covers all inputs of this model
RECURSIVE isqrt_from(_, _)
isqrt_from(number_, r) ==
    IF (r + 1) * (r + 1) > number_ THEN r ELSE isqrt_from(number_, r + 1)

isqrt(number_) == isqrt_from(number_, 0)

\* the for loop of is_prime, one iteration per unfolding, and the check of
\* found_factor that follows it
RECURSIVE is_prime_loop_no_final_check(_, _, _, _)
is_prime_loop_no_final_check(number_, k, hi, found_factor) ==
    IF k >= hi THEN TRUE
    ELSE IF number_ % k = 0
    THEN is_prime_loop_no_final_check(number_, k + 1, hi, TRUE)
    ELSE IF found_factor THEN FALSE
    ELSE is_prime_loop_no_final_check(number_, k + 1, hi, found_factor)

RECURSIVE is_prime_loop(_, _, _, _)
is_prime_loop(number_, k, hi, found_factor) ==
    IF k >= hi THEN ~found_factor
    ELSE IF number_ % k = 0 THEN is_prime_loop(number_, k + 1, hi, TRUE)
    ELSE IF found_factor THEN FALSE
    ELSE is_prime_loop(number_, k + 1, hi, found_factor)

is_prime_inclusive(number_) ==
    is_prime_loop(number_, 2, isqrt(number_) + 1, FALSE)

is_prime(number_) == is_prime_loop(number_, 2, isqrt(number_), FALSE)

last_digit_tens(number_) == (number_ \div 10) % 10

last_digit(number_) == number_ % 10

EmptyBuckets == [d \in Digits |-> <<>>]

\* body of the sequential loop: the is_prime test and the match
loop_body_no_test(b, k) ==
    IF last_digit(k) \in Digits
    THEN [b EXCEPT ![last_digit(k)] = Append(@, k)]
    ELSE b

loop_body(b, k) ==
    IF is_prime(k) /\ last_digit(k) \in Digits
    THEN [b EXCEPT ![last_digit(k)] = Append(@, k)]
    ELSE b

\* prime_buckets as a function of its argument
RECURSIVE prime_buckets_from(_, _, _)
prime_buckets_from(number_, k, b) ==
    IF k >= number_ THEN b
    ELSE prime_buckets_from(number_, k + 1, loop_body(b, k))

prime_buckets(number_) == prime_buckets_from(number_, 1, EmptyBuckets)

\* Vec::sort
RECURSIVE insert_sorted(_, _)
insert_sorted(s, x) ==
    IF s = <<>> THEN <<x>>
    ELSE IF x <= Head(s) THEN <<x>> \o s
    ELSE <<Head(s)>> \o insert_sorted(Tail(s), x)

RECURSIVE sort(_)
sort(s) == IF s = <<>> THEN <<>> ELSE insert_sorted(sort(Tail(s)), Head(s))

\* u64::to_string, as a sequence of characters
DigitChars == <<"0", "1", "2", "3", "4", "5", "6", "7", "8", "9">>

RECURSIVE to_string(_)
to_string(x) ==
    IF x < 10 THEN <<DigitChars[x + 1]>>
    ELSE to_string(x \div 10) \o <<DigitChars[(x % 10) + 1]>>

\* [String]::join
RECURSIVE join_trailing(_, _)
join_trailing(strings, sep) ==
    IF strings = <<>> THEN <<>>
    ELSE Head(strings) \o sep \o join_trailing(Tail(strings), sep)

RECURSIVE join(_, _)
join(strings, sep) ==
    IF strings = <<>> THEN <<>>
    ELSE IF Len(strings) = 1 THEN Head(strings)
    ELSE Head(strings) \o sep \o join(Tail(strings), sep)

CommaSpace == <<",", " ">>

strings_of(b) == [k \in 1..Len(b) |-> to_string(b[k])]

Absent == <<"absent">>

\* ------------------------------------------------------------------- Init
Idle == [w \in Workers |-> "idle"]
NoCand == [w \in Workers |-> 0]
Unlocked == [d \in Digits |-> NoHolder]
NoneAcquired == [d \in Digits |-> 0]
NoFiles == [d \in Digits |-> Absent]

Rest ==
    /\ ret = FALSE
    /\ i = 0
    /\ bucket = EmptyBuckets
    /\ evaluated = {}
    /\ pending = {}
    /\ wpc = Idle
    /\ wcand = NoCand
    /\ lock = Unlocked
    /\ acquired = NoneAcquired
    /\ bucket_end = EmptyBuckets
    /\ files = NoFiles

\* main after Args::parse()
Init ==
    /\ pc = "start"
    /\ par \in BOOLEAN
    /\ dump \in BOOLEAN
    /\ number \in 0..MaxBound
    /\ par => number <= MaxParBound
    /\ Rest

\* ------------------------------------------------------- sequential sieve
StartSeq_from2 ==
    /\ pc = "start" /\ ~par
    /\ pc' = "seq"
    /\ i' = 2
    /\ bucket' = EmptyBuckets
    /\ UNCHANGED <<number, par, dump, ret, evaluated, pending, wpc, wcand,
                   lock, acquired, bucket_end, files>>

StartSeq ==
    /\ pc = "start" /\ ~par
    /\ pc' = "seq"
    /\ i' = 1
    /\ bucket' = EmptyBuckets
    /\ UNCHANGED <<number, par, dump, ret, evaluated, pending, wpc, wcand,
                   lock, acquired, bucket_end, files>>

SeqStep ==
    /\ pc = "seq" /\ i < number
    /\ bucket' = loop_body(bucket, i)
    /\ evaluated' = evaluated \cup {i}
    /\ i' = i + 1
    /\ UNCHANGED <<pc, number, par, dump, ret, pending, wpc, wcand, lock,
                   acquired, bucket_end, files>>

SeqReturn ==
    /\ pc = "seq" /\ i >= number
    /\ bucket_end' = bucket
    /\ pc' = "returned"
    /\ UNCHANGED <<number, par, dump, ret, i, bucket, evaluated, pending,
                   wpc, wcand, lock, acquired, files>>

\* --------------------------------------------------------- parallel sieve
StartPar_from2 ==
    /\ pc = "start" /\ par
    /\ pc' = "par"
    /\ bucket' = EmptyBuckets
    /\ pending' = 2..(number - 1)
    /\ UNCHANGED <<number, par, dump, ret, i, evaluated, wpc, wcand, lock,
                   acquired, bucket_end, files>>

StartPar ==
    /\ pc = "start" /\ par
    /\ pc' = "par"
    /\ bucket' = EmptyBuckets
    /\ pending' = 1..(number - 1)
    /\ UNCHANGED <<number, par, dump, ret, i, evaluated, wpc, wcand, lock,
                   acquired, bucket_end, files>>

\* a worker runs the closure on one item up to the point where it needs a lock
Take(w) ==
    /\ pc = "par" /\ wpc[w] = "idle"
    /\ \E k \in pending :
        /\ pending' = pending \ {k}
        /\ evaluated' = evaluated \cup {k}
        /\ IF is_prime(k) /\ last_digit(k) \in Digits
           THEN /\ wpc' = [wpc EXCEPT ![w] = "lock"]
                /\ wcand' = [wcand EXCEPT ![w] = k]
           ELSE UNCHANGED <<wpc, wcand>>
    /\ UNCHANGED <<pc, number, par, dump, ret, i, bucket, lock, acquired,
                   bucket_end, files>>

\* bucket_endN.lock().unwrap()
Lock_unguarded(w) ==
    /\ pc = "par" /\ wpc[w] = "lock"
    /\ lock' = [lock EXCEPT ![last_digit(wcand[w])] = w]
    /\ acquired' = [acquired EXCEPT ![last_digit(wcand[w])] = @ + 1]
    /\ wpc' = [wpc EXCEPT ![w] = "push"]
    /\ UNCHANGED <<pc, number, par, dump, ret, i, bucket, evaluated, pending,
                   wcand, bucket_end, files>>

Lock(w) ==
    /\ pc = "par" /\ wpc[w] = "lock"
    /\ lock[last_digit(wcand[w])] = NoHolder
    /\ lock' = [lock EXCEPT ![last_digit(wcand[w])] = w]
    /\ acquired' = [acquired EXCEPT ![last_digit(wcand[w])] = @ + 1]
    /\ wpc' = [wpc EXCEPT ![w] = "push"]
    /\ UNCHANGED <<pc, number, par, dump, ret, i, bucket, evaluated, pending,
                   wcand, bucket_end, files>>

\* .push(i) through the guard; the temporary MutexGuard is dropped at the end
\* of the match arm, which ends the closure
Push_overwrite(w) ==
    /\ pc = "par" /\ wpc[w] = "push"
    /\ bucket' = [bucket EXCEPT ![last_digit(wcand[w])] = <<wcand[w]>>]
    /\ lock' = [lock EXCEPT ![last_digit(wcand[w])] = NoHolder]
    /\ wpc' = [wpc EXCEPT ![w] = "idle"]
    /\ wcand' = [wcand EXCEPT ![w] = 0]
    /\ UNCHANGED <<pc, number, par, dump, ret, i, evaluated, pending,
                   acquired, bucket_end, files>>

Push_leak(w) ==
    /\ pc = "par" /\ wpc[w] = "push"
    /\ bucket' = [bucket EXCEPT ![last_digit(wcand[w])] = Append(@, wcand[w])]
    /\ wpc' = [wpc EXCEPT ![w] = "idle"]
    /\ wcand' = [wcand EXCEPT ![w] = 0]
    /\ UNCHANGED <<pc, number, par, dump, ret, i, evaluated, pending, lock,
                   acquired, bucket_end, files>>

Push(w) ==
    /\ pc = "par" /\ wpc[w] = "push"
    /\ bucket' = [bucket EXCEPT ![last_digit(wcand[w])] = Append(@, wcand[w])]
    /\ lock' = [lock EXCEPT ![last_digit(wcand[w])] = NoHolder]
    /\ wpc' = [wpc EXCEPT ![w] = "idle"]
    /\ wcand' = [wcand EXCEPT ![w] = 0]
    /\ UNCHANGED <<pc, number, par, dump, ret, i, evaluated, pending,
                   acquired, bucket_end, files>>

\* for_each has returned; Arc::try_unwrap(..).into_inner() hands the Vecs out
ParReturn ==
    /\ pc = "par" /\ pending = {}
    /\ \A w \in Workers : wpc[w] = "idle"
    /\ bucket_end' = bucket
    /\ pc' = "returned"
    /\ UNCHANGED <<number, par, dump, ret, i, bucket, evaluated, pending,
                   wpc, wcand, lock, acquired, files>>

\* ------------------------------------------------------------ end of main
file_content_trailing(b) == join_trailing(strings_of(sort(b)), CommaSpace)

file_content(b) == join(strings_of(sort(b)), CommaSpace)

Dump ==
    /\ pc = "returned" /\ dump
    /\ bucket_end' = [d \in Digits |-> sort(bucket_end[d])]
    /\ files' = [d \in Digits |-> file_content(bucket_end[d])]
    /\ pc' = "done"
    /\ UNCHANGED <<number, par, dump, ret, i, bucket, evaluated, pending,
                   wpc, wcand, lock, acquired>>

NoDump ==
    /\ pc = "returned" /\ ~dump
    /\ pc' = "done"
    /\ UNCHANGED <<number, par, dump, ret, i, bucket, evaluated, pending,
                   wpc, wcand, lock, acquired, bucket_end, files>>

\* prime_buckets_par from its call to its return
ParNext ==
    \/ StartPar
    \/ \E w \in Workers : Take(w)
    \/ \E w \in Workers : Lock(w)
    \/ \E w \in Workers : Push(w)
    \/ ParReturn

Next ==
    \/ StartSeq
    \/ SeqStep
    \/ SeqReturn
    \/ ParNext
    \/ Dump
    \/ NoDump

Spec == Init /\ [][Next]_vars

\* every thread of the pool and main keep running while they can
ParInit ==
    /\ pc = "start"
    /\ par = TRUE
    /\ dump = FALSE
    /\ number \in 0..MaxParBound
    /\ Rest

FairSpec ==
    /\ ParInit /\ [][ParNext]_vars
    /\ \A w \in Workers :
        /\ WF_vars(Take(w))
        /\ WF_vars(Lock(w))
        /\ WF_vars(Push(w))
    /\ WF_vars(StartPar)
    /\ WF_vars(ParReturn)

\* ------------------------------------------------- is_prime called alone
PrimeInit ==
    /\ pc = "is_prime"
    /\ number \in 0..MaxN
    /\ par = FALSE
    /\ dump = FALSE
    /\ Rest

Call_is_prime ==
    /\ pc = "is_prime"
    /\ ret' = is_prime(number)
    /\ pc' = "is_prime_ret"
    /\ UNCHANGED <<number, par, dump, i, bucket, evaluated, pending, wpc,
                   wcand, lock, acquired, bucket_end, files>>

PrimeNext == Call_is_prime

PrimeSpec == PrimeInit /\ [][PrimeNext]_vars

\* ================================================================ claims
Range(s) == {s[k] : k \in 1..Len(s)}
Count(s, x) == Cardinality({k \in 1..Len(s) : s[k] = x})
Ascending(s) == \A a, b \in 1..Len(s) : a < b => s[a] < s[b]
StdPrime(n) == n >= 2 /\ \A d \in 2..(n - 1) : n % d # 0
Qualifying(bound, d) == {k \in 1..(bound - 1) : is_prime(k) /\ k % 10 = d}
Bucketed == UNION {Range(bucket_end[d]) : d \in Digits}
PrimesBelow(bound) == {n \in 0..(bound - 1) : is_prime(n)}

\* C1: for every bound and interleaving, each bucket returned by
\* prime_buckets_par holds exactly the elements, with the same multiplicities,
\* of the bucket prime_buckets returns for the same bound.
C1_ParEqualsSeqAsMultiset ==
    (pc = "returned" /\ par) =>
        \A d \in Digits :
            /\ Len(bucket_end[d]) = Len(prime_buckets(number)[d])
            /\ \A x \in 0..number :
                Count(bucket_end[d], x) = Count(prime_buckets(number)[d], x)

C1_Witness ==
    pc = "returned" /\ par /\ number = 12 /\ bucket_end[1] = <<11, 1>>
    /\ bucket_end[9] = <<9>>

C3_Original ==
    pc = "is_prime_ret" =>
        /\ (number >= 2 /\ number # 4) => (ret <=> StdPrime(number))
        /\ (ret /\ ~StdPrime(number)) => number \in {0, 1, 4}

Misclassified(n) ==
    \/ n \in {0, 1, 6, 8}
    \/ \E p \in 2..n :
        /\ p * p <= n
        /\ StdPrime(p)
        /\ (n = p * p \/ (n = p * (p + 2) /\ StdPrime(p + 2)))

\* C3 amended: is_prime accepts every standard prime, and the inputs it wrongly
\* accepts are 0, 1, 6, 8, the squares of primes (4, 9, 25, ...) and the
\* products p * (p + 2) of twin primes (15, 35, 143, ...), and no others.
C3_Amended ==
    pc = "is_prime_ret" =>
        /\ StdPrime(number) => ret
        /\ (ret /\ ~StdPrime(number)) <=> Misclassified(number)

C3_Witness == pc = "is_prime_ret" /\ number = 35 /\ ret = TRUE

\* C4: bucket d of prime_buckets(bound) is the strictly ascending sequence of
\* all i in [1, bound) with is_prime(i) and i mod 10 = d; bound itself is never
\* tested; for bound = 10 the buckets are [1], [3], [7], [9].
C4_SeqBuckets ==
    (pc = "returned" /\ ~par) =>
        /\ \A d \in Digits :
            /\ Ascending(bucket_end[d])
            /\ Range(bucket_end[d]) = Qualifying(number, d)
        /\ evaluated = 1..(number - 1)
        /\ number = 10 =>
            bucket_end = [d \in Digits |-> <<d>>]

C4_Witness ==
    pc = "returned" /\ ~par /\ number = 10 /\ bucket_end[9] = <<9>>

\* C5: in every state of either scan, every element of bucket d satisfies
\* is_prime, lies in [1, bound) and ends in d, and the buckets are disjoint.
C5_BucketInvariant ==
    /\ \A d \in Digits : \A k \in 1..Len(bucket[d]) :
        /\ is_prime(bucket[d][k])
        /\ 1 <= bucket[d][k] /\ bucket[d][k] < number
        /\ bucket[d][k] % 10 = d
    /\ \A d, e \in Digits :
        d # e => Range(bucket[d]) \cap Range(bucket[e]) = {}

C5_Witness ==
    /\ pc = "par" /\ number = 12
    /\ bucket[1] = <<11>> /\ bucket[3] = <<3>>
    /\ \E w \in Workers : wpc[w] = "push" /\ wcand[w] = 1

\* C6 as stated: for every bound, 0 and 1 included, the bucketed values are a
\* strict subset of the n < bound accepted by is_prime.
C6_Original ==
    pc = "returned" =>
        /\ Bucketed \subseteq PrimesBelow(number)
        /\ Bucketed # PrimesBelow(number)

\* C6 amended: the bucketed values are a subset of the n < bound accepted by
\* is_prime; the subset is strict for every bound >= 1 (0 is accepted and is
\* never scanned), and for bound 0 both sets are empty, hence equal.
C6_Amended ==
    pc = "returned" =>
        /\ Bucketed \subseteq PrimesBelow(number)
        /\ number >= 1 => 0 \in PrimesBelow(number) \ Bucketed
        /\ number = 0 => (Bucketed = {} /\ PrimesBelow(number) = {})

C6_Witness ==
    pc = "returned" /\ number = 10 /\ Bucketed = {1, 3, 7, 9}
    /\ PrimesBelow(number) = 0..9

\* C7: under fair scheduling prime_buckets_par returns for every bound with
\* every candidate of [1, bound) evaluated and no worker left waiting; every
\* requested lock is eventually granted, a held lock always belonging to a
\* worker that is about to push and release it; and no state before the
\* return is a deadlock.
C7_ParTerminates ==
    /\ (pc = "start") ~>
        (/\ pc = "returned"
         /\ evaluated = 1..(number - 1)
         /\ \A w \in Workers : wpc[w] = "idle")
    /\ \A w \in Workers : (wpc[w] = "lock") ~> (wpc[w] = "push")
    /\ [](\A d \in Digits : lock[d] # NoHolder => wpc[lock[d]] = "push")
    /\ [](pc \in {"start", "par"} => ENABLED <<ParNext>>_vars)

C7_Witness ==
    /\ pc = "par"
    /\ wpc[1] = "lock" /\ wpc[2] = "push"
    /\ last_digit(wcand[1]) = last_digit(wcand[2])

\* reading a dumped file back: str::split on the separator, then parse::<u64>
\* of each piece (-1 stands for a piece that is no decimal number)
starts_with(s, sep) == Len(s) >= Len(sep) /\ SubSeq(s, 1, Len(sep)) = sep

RECURSIVE split_from(_, _, _)
split_from(s, sep, piece) ==
    IF s = <<>> THEN <<piece>>
    ELSE IF starts_with(s, sep)
    THEN <<piece>> \o split_from(SubSeq(s, Len(sep) + 1, Len(s)), sep, <<>>)
    ELSE split_from(Tail(s), sep, Append(piece, Head(s)))

split(s, sep) == split_from(s, sep, <<>>)

digit_value(c) == CHOOSE v \in 0..9 : DigitChars[v + 1] = c

RECURSIVE parse_digits(_, _)
parse_digits(piece, acc) ==
    IF piece = <<>> THEN acc
    ELSE parse_digits(Tail(piece), 10 * acc + digit_value(Head(piece)))

parse(piece) ==
    IF piece = <<>> \/ \E k \in 1..Len(piece) : piece[k] \notin Range(DigitChars)
    THEN -1
    ELSE parse_digits(piece, 0)

read_back(content) ==
    [k \in 1..Len(split(content, CommaSpace)) |->
        parse(split(content, CommaSpace)[k])]

SortedDump(d) ==
    /\ Ascending(bucket_end[d])
    /\ Len(bucket_end[d]) = Len(bucket[d])
    /\ Range(bucket_end[d]) = Range(bucket[d])
    /\ files[d] # Absent
    /\ ~(Len(files[d]) >= 2
         /\ SubSeq(files[d], Len(files[d]) - 1, Len(files[d])) = CommaSpace)
    /\ (files[d] # <<>> => files[d][Len(files[d])] \in Range(DigitChars))

\* C8 as stated: after a dump every file holds the ascending bucket joined by
\* ", " with nothing trailing, and split-and-parse of the file gives the sorted
\* bucket back, the empty bucket included.
C8_Original ==
    (pc = "done" /\ dump) =>
        \A d \in Digits :
            /\ SortedDump(d)
            /\ read_back(files[d]) = bucket_end[d]

\* C8 amended: after a dump every file holds the ascending bucket joined by
\* ", " with nothing trailing; split-and-parse of the file gives the sorted
\* bucket back when the bucket is not empty; for an empty bucket the file is
\* empty and splitting it yields one empty piece, which is no integer.
C8_Amended ==
    (pc = "done" /\ dump) =>
        \A d \in Digits :
            /\ SortedDump(d)
            /\ bucket_end[d] # <<>> => read_back(files[d]) = bucket_end[d]
            /\ bucket_end[d] = <<>> =>
                (files[d] = <<>> /\ split(files[d], CommaSpace) = << <<>> >>)

C8_Witness ==
    /\ pc = "done" /\ dump /\ par
    /\ bucket[1] = <<11, 1>>
    /\ bucket_end[1] = <<1, 11>>
    /\ files[1] = <<"1", ",", " ", "1", "1">>

\* C9: the parallel sieve may return a bucket that is not ascending, yet the
\* elements of each returned bucket are fixed by the bound alone, whatever
\* the interleaving.
C9_ParContentFixedByBound ==
    (pc = "returned" /\ par) =>
        \A d \in Digits :
            /\ Range(bucket_end[d]) = Qualifying(number, d)
            /\ Len(bucket_end[d]) = Cardinality(Qualifying(number, d))

C9_Witness ==
    /\ pc = "returned" /\ par
    /\ \E d \in Digits : ~Ascending(bucket_end[d])

Holding(w) == {d \in Digits : lock[d] = w}

\* C10: a worker about to append to bucket d holds the lock of d and no other
\* lock, one lock acquisition per append; no two workers write one bucket at
\* a time; a bucket changes only by its lock holder's append, after which the
\* lock is free; a candidate that is not appended holds no lock.
C10_LockDiscipline ==
    /\ [](\A w \in Workers :
            /\ wpc[w] = "push" =>
                (/\ Holding(w) = {last_digit(wcand[w])}
                 /\ is_prime(wcand[w]))
            /\ wpc[w] # "push" => Holding(w) = {}
            /\ \A v \in Workers :
                (v # w /\ wpc[v] = "push" /\ wpc[w] = "push")
                    => last_digit(wcand[v]) # last_digit(wcand[w]))
    /\ [](par => \A d \in Digits :
            acquired[d] = Len(bucket[d]) + (IF lock[d] = NoHolder THEN 0 ELSE 1))
    /\ [][\A d \in Digits :
            (pc = "par" /\ bucket'[d] # bucket[d]) =>
                /\ lock[d] # NoHolder
                /\ wpc[lock[d]] = "push"
                /\ bucket'[d] = Append(bucket[d], wcand[lock[d]])
                /\ lock'[d] = NoHolder]_vars

C10_Witness ==
    /\ pc = "par"
    /\ wpc[1] = "push" /\ wpc[2] = "push"
    /\ bucket[1] # <<>>

====
